---- MODULE Spec2Model ----
(***************************************************************************)
(* Authentication security gate of the school-management system:          *)
(* the rate-limited authentication backends (apps/accounts/backends.py),   *)
(* the way Django runs them (config/settings.py AUTHENTICATION_BACKENDS),  *)
(* and the two-factor profile (apps/accounts/models.py TwoFactorAuth and   *)
(* the views of apps/accounts/security_views.py), the request scan and     *)
(* rate gate of SecurityMiddleware (apps/accounts/middleware.py) and the   *)
(* audit tables LoginAttempt and SecurityEvent.                            *)
(*                                                                         *)
(* Every cache.get / cache.set / cache.delete of a backend is one atomic   *)
(* step of a request; requests interleave between those steps.             *)
(***************************************************************************)
EXTENDS Integers, Sequences, FiniteSets, TLC

VARIABLES
    cache,      \* the Django cache: key -> [val, exp]; an entry is live while now < exp
    now,        \* wall clock, seconds
    proc,       \* the authentication requests in flight, one record per worker
    calls,      \* authentication calls started so far
    streak,     \* per username: failed calls completed in a row at the current instant
    expected,   \* per username: increments of login_attempts completed since the key was last absent
    void,       \* per username: a reset or expiry fell between a get and its set
    lastLockSet, \* per username: time account_lockout was last written, -1 if never
    two_factor, \* the TwoFactorAuth row of the user "admin"
    lastOp,     \* the two-factor or login handler that ran last, with what it saw
    consumed,   \* backup codes verified successfully since they were last generated
    vreq,       \* the requests redeeming a backup code, one record per worker
    issued,     \* backup codes generated so far: before the last disable_2fa, and since
    security_events,     \* the SecurityEvent table: per event_type, the number of rows
    login_attempt_rows,  \* the LoginAttempt table: per success flag, the number of rows
    lastReq,    \* the request SecurityMiddleware.process_request saw last, with what it did
    sensitive_seen,       \* per client IP: requests to a sensitive endpoint so far
    refusals,   \* the refused logins so far: view, cause and the response shown
    lastCall,   \* the last call of IPRateLimitedBackend.authenticate, with the cache around it
    oldest,     \* per attempt counter: when the first failure it still counts was made, -1 if absent
    lastIp      \* the last request whose client address was derived, with the three results

authVars == <<cache, now, proc, calls, streak, expected, void, lastLockSet>>
tfaVars == <<two_factor, lastOp, consumed, vreq, issued>>
auditVars == <<security_events, login_attempt_rows>>
mwVars == <<lastReq, sensitive_seen>>
callVars == <<refusals, lastCall, oldest, lastIp>>

----------------------------------------------------------------------------
(* Program constants                                                       *)

LOGIN_ATTEMPTS_LIMIT == 5
LOGIN_ATTEMPTS_TIMEOUT == 300
ACCOUNT_LOCKOUT_DURATION == 1800

(* Bounds of the model                                                     *)

MaxCalls == 7
MaxTime == 1800

Procs == {"w1", "w2"}

(* The accounts created by the data migration, and what a client may send. *)
Registered == {"admin"}
Usernames == {"admin"}
IPs == {"10.0.0.1"}
Passwords == {"admin123", "wrong"}
Password == [u \in Registered |-> "admin123"]

----------------------------------------------------------------------------
(* The cache                                                               *)

\* the usernames a login form may carry: "ghost" has no account
LoginNames == Usernames \cup {"ghost"}

\* the addresses a login may come from
ClientIPs == IPs \cup {"10.0.0.2"}

CacheKeys == ({"login_attempts", "account_lockout"} \X LoginNames)
                \cup ({"ip_attempts", "ip_rate_limit", "rate_limit"} \X ClientIPs)

\* the attempt counters, and the lockout record each one leads to
AttemptKeys == ({"login_attempts"} \X LoginNames) \cup ({"ip_attempts"} \X ClientIPs)
LockOf(k) == IF k[1] = "login_attempts" THEN <<"account_lockout", k[2]>>
             ELSE <<"ip_rate_limit", k[2]>>

Absent == [val |-> 0, exp |-> 0]

\* cache.get(key) is not None: the entry is there and its timeout has not passed
CacheHas(c, t, k) == c[k].exp > t

\* cache.get(key, default)
CacheGetDefault(c, t, k, d) == IF CacheHas(c, t, k) THEN c[k].val ELSE d

\* cache.set(key, value, timeout)
CacheSet(c, t, k, v, timeout) == [c EXCEPT ![k] = [val |-> v, exp |-> t + timeout]]

\* cache.delete(key)
CacheDelete(c, k) == [c EXCEPT ![k] = Absent]

\* the store drops the entries whose timeout has passed
CacheExpire(c, t) == [k \in CacheKeys |-> IF c[k].exp > t THEN c[k] ELSE Absent]

----------------------------------------------------------------------------
(* RateLimitedModelBackend                                                 *)

AttemptsKey(username) == <<"login_attempts", username>>
LockoutKey(username) == <<"account_lockout", username>>

\* ModelBackend.authenticate: look the user up and compare the password
CheckPassword(username, password) ==
    /\ username \in Registered
    /\ password = Password[username]

IsAccountLocked(c, t, username) == CacheHas(c, t, LockoutKey(username))

LockAccountForever(c, t, username) ==
    CacheSet(c, t, LockoutKey(username), 1, MaxTime + ACCOUNT_LOCKOUT_DURATION)

LockAccount(c, t, username) ==
    CacheSet(c, t, LockoutKey(username), 1, ACCOUNT_LOCKOUT_DURATION)

\* lines 53-54: current_attempts = cache.get(attempts_key, 0)
ReadAttempts(c, t, username) == CacheGetDefault(c, t, AttemptsKey(username), 0)

\* lines 54-58: cache.set(attempts_key, current_attempts + 1, timeout)
WriteAttempts(c, t, username, current_attempts) ==
    CacheSet(c, t, AttemptsKey(username), current_attempts + 1, LOGIN_ATTEMPTS_TIMEOUT)

\* lines 77-80, one delete at a time
DeleteAttempts(c, username) == CacheDelete(c, AttemptsKey(username))
DeleteLockout(c, username) == CacheDelete(c, LockoutKey(username))

----------------------------------------------------------------------------
(* TwoFactorAuth                                                           *)

TOTP_INTERVAL == 30
VALID_WINDOW == 1

BackupCodeCount == 2
MaxTime2FA == 60

Secrets == {"JBSWY3DP", "KRUGKIDR"}
Codes == {"0A1B2C3D", "4E5F6A7B"}

\* the row before get_or_create has made it
NoRow == [exists |-> FALSE, is_enabled |-> FALSE, secret_key |-> "", backup_codes |-> <<>>]

NoOp == [op |-> "", ok |-> FALSE, tokenValid |-> FALSE, code |-> "",
         usedBefore |-> FALSE, before |-> NoRow, calls |-> {},
         token |-> <<"", 0>>, at |-> 0, returned |-> <<>>]

\* before the first request reaches the middleware
NoHttpRequest == [path |-> <<>>, method |-> "GET", user_agent |-> <<>>,
                  GET |-> <<>>, POST |-> <<>>, user |-> "", ip |-> "10.0.0.1"]
NoRequestYet == [n |-> 0, request |-> NoHttpRequest, response |-> "", created |-> <<>>]

\* SecurityEvent.EVENT_TYPES
EVENT_TYPES == {"LOGIN_SUCCESS", "LOGIN_FAILED", "ACCOUNT_LOCKED", "PASSWORD_CHANGED",
                "SUSPICIOUS_ACTIVITY", "ADMIN_ACTION"}

\* the event_type values that the create() calls of the app pass; the
\* choices of the column are not checked by objects.create
EventTypeColumn == EVENT_TYPES \cup {"USER_ACTION"}

\* before the first request whose client address is derived
NoDerivation == [n |-> 0, META |-> [HTTP_X_FORWARDED_FOR |-> <<>>, REMOTE_ADDR |-> <<>>],
                 middleware |-> <<>>, backend |-> <<>>, logging |-> <<>>]

\* before the first call of IPRateLimitedBackend.authenticate
NoCall == [n |-> 0, username |-> "", client_ip |-> "", password |-> "", user |-> "",
           at |-> 0, before |-> <<>>, after |-> <<>>, spans |-> {}]

\* no backup code generated yet
NoneIssued == [old |-> {}, fresh |-> {}, disabled |-> FALSE]

NoRequest == [pc |-> "idle", inst |-> NoRow, code |-> "", result |-> FALSE, raced |-> FALSE,
              together |-> FALSE]

\* pyotp: the one-time code of a secret for a time step
OneTimeCode(secret, counter) == <<secret, counter>>

\* pyotp TOTP.timecode
TimeCode(t) == t \div TOTP_INTERVAL

\* pyotp TOTP.verify(token, valid_window=1) at time t
TotpVerify(secret, token, t) ==
    \E i \in (0 - VALID_WINDOW)..VALID_WINDOW : token = OneTimeCode(secret, TimeCode(t) + i)

\* what a client may type as a token
Tokens == {OneTimeCode(s, k) : s \in Secrets, k \in 0..(TimeCode(MaxTime2FA) + 2)}

\* TwoFactorAuth.objects.get_or_create(user=user)
GetOrCreate(row) == IF row.exists THEN row ELSE [NoRow EXCEPT !.exists = TRUE]

\* generate_secret_key: a fresh random secret, saved
GenerateSecretKey(row, secret) == [row EXCEPT !.secret_key = secret]

\* generate_backup_codes: count fresh random codes replace the list, saved
GenerateBackupCodes(row, codes) == [row EXCEPT !.backup_codes = codes]

\* the lists secrets.token_hex can produce
CodeLists == [1..BackupCodeCount -> Codes]

\* verify_totp without the is_enabled test
VerifyTotpAnyState(row, token, t) ==
    IF row.secret_key = "" THEN FALSE
    ELSE TotpVerify(row.secret_key, token, t)

\* verify_totp with valid_window=2
VerifyTotpTwoSteps(row, token, t) ==
    IF ~row.is_enabled \/ row.secret_key = "" THEN FALSE
    ELSE \E i \in -2..2 : token = OneTimeCode(row.secret_key, TimeCode(t) + i)

\* verify_totp
VerifyTotp(row, token, t) ==
    IF ~row.is_enabled \/ row.secret_key = "" THEN FALSE
    ELSE TotpVerify(row.secret_key, token, t)

InList(code, list) == \E i \in 1..Len(list) : list[i] = code

\* list.remove(code): drop the first occurrence
ListRemove(list, code) ==
    LET i == CHOOSE j \in 1..Len(list) :
                 list[j] = code /\ \A k \in 1..(j - 1) : list[k] # code
    IN SubSeq(list, 1, i - 1) \o SubSeq(list, i + 1, Len(list))

\* verify_backup_code on an instance: the instance afterwards and the result
VerifyBackupCode(inst, code) ==
    IF InList(code, inst.backup_codes)
    THEN [inst |-> [inst EXCEPT !.backup_codes = ListRemove(inst.backup_codes, code)],
          result |-> TRUE]
    ELSE [inst |-> inst, result |-> FALSE]

----------------------------------------------------------------------------
(* One authentication request                                              *)

Idle == [pc |-> "idle", username |-> "admin", password |-> "wrong",
         ip |-> "10.0.0.1", current_attempts |-> 0, user |-> "",
         sawLocked |-> FALSE, compared |-> FALSE, byBackend |-> "",
         overlapped |-> FALSE, afterExpiry |-> FALSE, afterStreak |-> FALSE, leftClean |-> FALSE,
         raised |-> FALSE]

Min(a, b) == IF a < b THEN a ELSE b

MidIncrement(pr, username) ==
    \E q \in Procs : pr[q].pc = "rl_set" /\ pr[q].username = username

\* nothing is recorded for this username and this address
Clean(c, t, username, ip) ==
    /\ ~CacheHas(c, t, AttemptsKey(username))
    /\ ~CacheHas(c, t, LockoutKey(username))
    /\ ~CacheHas(c, t, <<"ip_attempts", ip>>)
    /\ ~CacheHas(c, t, <<"ip_rate_limit", ip>>)

\* the requests in flight
InFlight == {q \in Procs : proc[q].pc \notin {"idle", "done"}}

\* the call returns to the view: user is the username granted, "" for None
Return(p, r, user, c) ==
    /\ proc' = [proc EXCEPT ![p] = [r EXCEPT !.pc = "done", !.user = user,
                    !.leftClean = Clean(c, now, r.username, r.ip)]]
    /\ streak' = [streak EXCEPT ![r.username] =
                    IF user # "" THEN 0 ELSE Min(@ + 1, LOGIN_ATTEMPTS_LIMIT + 1)]

\* django.contrib.auth.authenticate: a backend that returns None hands the
\* credentials to the next backend of AUTHENTICATION_BACKENDS
NextBackend(p, r) ==
    /\ proc' = [proc EXCEPT ![p] = [r EXCEPT !.pc = "mb_auth"]]
    /\ UNCHANGED streak

\* the workers are interchangeable: a request takes the first free one
Earlier(p) == IF p = "w2" THEN {"w1"} ELSE {}

\* the lockout written last for this username has run its full duration
LockoutElapsed(t, username) ==
    /\ lastLockSet[username] >= 0
    /\ t >= lastLockSet[username] + ACCOUNT_LOCKOUT_DURATION

\* exactly LOGIN_ATTEMPTS_LIMIT calls for this username have failed in a row,
\* all of them at the current instant
AfterStreak(username) == streak[username] = LOGIN_ATTEMPTS_LIMIT

\* a view calls authenticate(request, username=..., password=...)
Begin(p) ==
    /\ proc[p].pc \in {"idle", "done"}
    /\ \A q \in Earlier(p) : proc[q].pc \notin {"idle", "done"}
    /\ calls < MaxCalls
    /\ \E u \in Usernames, pw \in Passwords, ip \in IPs :
         proc' = [q \in Procs |->
                    IF q = p
                    THEN [Idle EXCEPT !.pc = "rl_check", !.username = u, !.password = pw,
                                      !.ip = ip, !.overlapped = (InFlight # {})]
                    ELSE IF q \in InFlight THEN [proc[q] EXCEPT !.overlapped = TRUE]
                    ELSE proc[q]]
    /\ calls' = calls + 1
    /\ UNCHANGED <<tfaVars, auditVars, mwVars, callVars, cache, now, streak, expected, void, lastLockSet>>

\* RateLimitedModelBackend.authenticate, lines 26-34
RLCheck(p) ==
    LET r == proc[p] IN
    /\ r.pc = "rl_check"
    /\ IF IsAccountLocked(cache, now, r.username)
         THEN NextBackend(p, [r EXCEPT !.sawLocked = TRUE,
                                       !.afterStreak = AfterStreak(r.username),
                                       !.afterExpiry = LockoutElapsed(now, r.username)])
         ELSE /\ proc' = [proc EXCEPT ![p] = [r EXCEPT !.compared = TRUE,
                             !.afterStreak = AfterStreak(r.username),
                             !.afterExpiry = LockoutElapsed(now, r.username),
                             !.pc = IF CheckPassword(r.username, r.password)
                                    THEN "rl_reset_attempts" ELSE "rl_get"]]
              /\ UNCHANGED streak
    /\ UNCHANGED <<tfaVars, auditVars, mwVars, callVars, cache, now, calls, expected, void, lastLockSet>>

\* _reset_failed_attempts, line 79
RLResetAttempts(p) ==
    LET r == proc[p] IN
    /\ r.pc = "rl_reset_attempts"
    /\ cache' = DeleteAttempts(cache, r.username)
    /\ proc' = [proc EXCEPT ![p] = [r EXCEPT !.pc = "rl_reset_lockout"]]
    /\ expected' = [expected EXCEPT ![r.username] = 0]
    /\ void' = [void EXCEPT ![r.username] = MidIncrement(proc, r.username)]
    /\ UNCHANGED <<tfaVars, auditVars, mwVars, callVars, now, calls, streak, lastLockSet>>

\* _reset_failed_attempts, line 80, then authenticate returns the user (line 38)
RLResetLockout(p) ==
    LET r == proc[p] IN
    /\ r.pc = "rl_reset_lockout"
    /\ cache' = DeleteLockout(cache, r.username)
    /\ Return(p, [r EXCEPT !.byBackend = "RateLimitedModelBackend"], r.username, cache')
    /\ UNCHANGED <<tfaVars, auditVars, mwVars, callVars, now, calls, expected, void, lastLockSet>>

\* _record_failed_attempt, line 53
RLGet(p) ==
    LET r == proc[p] IN
    /\ r.pc = "rl_get"
    /\ proc' = [proc EXCEPT ![p] = [r EXCEPT !.pc = "rl_set",
                    !.current_attempts = ReadAttempts(cache, now, r.username)]]
    /\ UNCHANGED <<tfaVars, auditVars, mwVars, callVars, cache, now, calls, streak, expected, void, lastLockSet>>

\* _record_failed_attempt, lines 54-62
RLSet(p) ==
    LET r == proc[p] IN
    /\ r.pc = "rl_set"
    /\ cache' = WriteAttempts(cache, now, r.username, r.current_attempts)
    /\ expected' = [expected EXCEPT ![r.username] = @ + 1]
    /\ IF r.current_attempts + 1 >= LOGIN_ATTEMPTS_LIMIT
         THEN /\ proc' = [proc EXCEPT ![p] = [r EXCEPT !.pc = "rl_lock",
                                                       !.current_attempts = 0]]
              /\ UNCHANGED streak
         ELSE NextBackend(p, [r EXCEPT !.current_attempts = 0])
    /\ UNCHANGED <<tfaVars, auditVars, mwVars, callVars, now, calls, void, lastLockSet>>

\* _lock_account (lines 66-73), then authenticate returns None (line 43)
RLLock(p) ==
    LET r == proc[p] IN
    /\ r.pc = "rl_lock"
    /\ cache' = LockAccount(cache, now, r.username)
    /\ lastLockSet' = [lastLockSet EXCEPT ![r.username] = now]
    /\ NextBackend(p, r)
    /\ UNCHANGED <<tfaVars, auditVars, mwVars, callVars, now, calls, expected, void>>

\* django.contrib.auth.backends.ModelBackend, the second configured backend
MBAuth(p) ==
    LET r == proc[p]
        ok == CheckPassword(r.username, r.password) IN
    /\ r.pc = "mb_auth"
    /\ Return(p, [r EXCEPT !.compared = TRUE,
                           !.byBackend = IF ok THEN "ModelBackend" ELSE ""],
              IF ok THEN r.username ELSE "", cache)
    /\ UNCHANGED <<tfaVars, auditVars, mwVars, callVars, cache, now, calls, expected, void, lastLockSet>>

\* time passes by one attempt window or one lockout duration
Tick ==
    /\ \E d \in {LOGIN_ATTEMPTS_TIMEOUT, ACCOUNT_LOCKOUT_DURATION} :
         /\ now + d <= MaxTime
         /\ now' = now + d
    /\ cache' = CacheExpire(cache, now')
    /\ streak' = [u \in Usernames |-> 0]
    /\ expected' = [u \in Usernames |->
                      IF CacheHas(cache, now', AttemptsKey(u)) THEN expected[u] ELSE 0]
    /\ void' = [u \in Usernames |->
                  IF CacheHas(cache, now', AttemptsKey(u)) THEN void[u]
                  ELSE MidIncrement(proc, u)]
    /\ UNCHANGED <<tfaVars, auditVars, mwVars, callVars, proc, calls, lastLockSet>>

\* the steps of a request that go to the cache
CacheSteps == {"rl_check", "rl_reset_attempts", "rl_reset_lockout", "rl_get", "rl_set", "rl_lock"}

\* the backend swallows the cache error and returns None
CacheErrorSwallowed(p) ==
    /\ proc[p].pc \in CacheSteps
    /\ NextBackend(p, [proc[p] EXCEPT !.raised = TRUE])
    /\ UNCHANGED <<tfaVars, auditVars, mwVars, callVars, cache, now, calls, expected, void, lastLockSet>>

\* the cache is unreachable: cache.get / set / delete raises, no backend
\* catches it, and django.contrib.auth.authenticate (which catches only
\* PermissionDenied) lets it end the call without a user
CacheError(p) ==
    /\ proc[p].pc \in CacheSteps
    /\ proc' = [proc EXCEPT ![p] = [@ EXCEPT !.pc = "done", !.user = "", !.raised = TRUE]]
    /\ UNCHANGED <<tfaVars, auditVars, mwVars, callVars, cache, now, calls, streak, expected, void, lastLockSet>>

Init ==
    /\ cache = [k \in CacheKeys |-> Absent]
    /\ now = 0
    /\ proc = [p \in Procs |-> Idle]
    /\ calls = 0
    /\ streak = [u \in Usernames |-> 0]
    /\ expected = [u \in Usernames |-> 0]
    /\ void = [u \in Usernames |-> FALSE]
    /\ lastLockSet = [u \in Usernames |-> -1]
    /\ two_factor = NoRow
    /\ lastOp = NoOp
    /\ consumed = {}
    /\ vreq = [p \in Procs |-> NoRequest]
    /\ issued = NoneIssued
    /\ security_events = [e \in EventTypeColumn |-> 0]
    /\ login_attempt_rows = [success \in BOOLEAN |-> 0]
    /\ lastReq = NoRequestYet
    /\ sensitive_seen = [ip \in IPs |-> 0]
    /\ refusals = {}
    /\ lastCall = NoCall
    /\ oldest = [k \in AttemptKeys |-> -1]
    /\ lastIp = NoDerivation

Next ==
    \/ \E p \in Procs : Begin(p)
    \/ \E p \in Procs : RLCheck(p)
    \/ \E p \in Procs : RLResetAttempts(p)
    \/ \E p \in Procs : RLResetLockout(p)
    \/ \E p \in Procs : RLGet(p)
    \/ \E p \in Procs : RLSet(p)
    \/ \E p \in Procs : RLLock(p)
    \/ \E p \in Procs : MBAuth(p)
    \/ Tick

vars == <<authVars, tfaVars, auditVars, mwVars, callVars>>

\* the configured backends over a cache that can fail at any step
NextOutage ==
    \/ \E p \in Procs : Begin(p)
    \/ \E p \in Procs : RLCheck(p)
    \/ \E p \in Procs : RLResetAttempts(p)
    \/ \E p \in Procs : RLResetLockout(p)
    \/ \E p \in Procs : RLGet(p)
    \/ \E p \in Procs : RLSet(p)
    \/ \E p \in Procs : RLLock(p)
    \/ \E p \in Procs : MBAuth(p)
    \/ \E p \in Procs : CacheError(p)

SpecOutage == Init /\ [][NextOutage]_vars

----------------------------------------------------------------------------
(* The handlers, one request at a time                                     *)

\* RateLimitedModelBackend.authenticate run to its end: the cache it leaves
\* and the user it returns ("" for None)
RateLimitedAuthenticate(c, t, username, password) ==
    IF IsAccountLocked(c, t, username) THEN [cache |-> c, user |-> ""]
    ELSE IF CheckPassword(username, password)
    THEN [cache |-> DeleteLockout(DeleteAttempts(c, username), username), user |-> username]
    ELSE LET current_attempts == ReadAttempts(c, t, username)
             c1 == WriteAttempts(c, t, username, current_attempts)
         IN [cache |-> IF current_attempts + 1 >= LOGIN_ATTEMPTS_LIMIT
                       THEN LockAccount(c1, t, username) ELSE c1,
             user |-> ""]

\* django.contrib.auth.authenticate over AUTHENTICATION_BACKENDS:
\* RateLimitedModelBackend first, then ModelBackend
Authenticate(c, t, username, password) ==
    LET first == RateLimitedAuthenticate(c, t, username, password) IN
    IF first.user # "" THEN first
    ELSE [cache |-> first.cache,
          user |-> IF CheckPassword(username, password) THEN username ELSE ""]

\* is_security_admin: the accounts of the data migration are all staff
Staff == {"admin"}
IsSecurityAdmin(username) == username \in Staff

LoginViews == {"CustomLoginView", "security_admin_login"}

frame2FA == <<proc, calls, streak, expected, void, lastLockSet, vreq, auditVars, mwVars, callVars>>

Range(list) == {list[i] : i \in 1..Len(list)}

\* CustomLoginView / security_admin_login: authenticate, then login
Login ==
    \E view \in LoginViews, u \in Usernames, pw \in Passwords :
        LET a == Authenticate(cache, now, u, pw)
            granted == /\ a.user # ""
                       /\ view = "security_admin_login" => IsSecurityAdmin(a.user)
        IN /\ cache' = a.cache
           /\ lastOp' = [NoOp EXCEPT !.op = view, !.ok = granted, !.before = two_factor,
                            !.calls = IF granted THEN {"authenticate", "login"}
                                      ELSE {"authenticate"}]
           /\ UNCHANGED <<two_factor, consumed, issued, now, frame2FA>>

\* security_settings
SecuritySettings ==
    \E secret \in Secrets :
        LET two_fa == GetOrCreate(two_factor) IN
        /\ two_factor' = IF ~two_fa.is_enabled /\ two_fa.secret_key = ""
                         THEN GenerateSecretKey(two_fa, secret) ELSE two_fa
        /\ lastOp' = [NoOp EXCEPT !.op = "security_settings", !.before = two_factor]
        /\ UNCHANGED <<consumed, issued, cache, now, frame2FA>>

\* enable_2fa, POST
Enable2FA ==
    \E secret \in Secrets, codes \in CodeLists :
        LET two_fa == GetOrCreate(two_factor) IN
        /\ two_factor' = GenerateBackupCodes(GenerateSecretKey(two_fa, secret), codes)
        /\ consumed' = {}
        /\ issued' = [issued EXCEPT !.fresh = @ \cup Range(codes)]
        /\ lastOp' = [NoOp EXCEPT !.op = "enable_2fa", !.before = two_factor,
                         !.returned = codes]
        /\ UNCHANGED <<cache, now, frame2FA>>

\* verify_2fa_setup, POST
Verify2FASetup ==
    \E token \in Tokens :
        LET ok == two_factor.exists /\ VerifyTotp(two_factor, token, now) IN
        /\ two_factor' = IF ok THEN [two_factor EXCEPT !.is_enabled = TRUE] ELSE two_factor
        /\ lastOp' = [NoOp EXCEPT !.op = "verify_2fa_setup", !.ok = ok,
                         !.before = two_factor, !.token = token, !.at = now,
                         !.tokenValid = /\ two_factor.secret_key # ""
                                        /\ TotpVerify(two_factor.secret_key, token, now)]
        /\ UNCHANGED <<consumed, issued, cache, now, frame2FA>>

\* disable_2fa keeps the flag down but leaves the secret and the codes
DisableFlagOnly(row) == [row EXCEPT !.is_enabled = FALSE]

\* disable_2fa, the three assignments before save()
Disable(row) == [row EXCEPT !.is_enabled = FALSE, !.secret_key = "", !.backup_codes = <<>>]

\* disable_2fa, POST
Disable2FA ==
    /\ two_factor' = IF two_factor.exists THEN Disable(two_factor) ELSE two_factor
    /\ issued' = IF two_factor.exists
                 THEN [old |-> issued.old \cup issued.fresh, fresh |-> {}, disabled |-> TRUE]
                 ELSE issued
    /\ lastOp' = [NoOp EXCEPT !.op = "disable_2fa", !.ok = two_factor.exists,
                     !.before = two_factor]
    /\ UNCHANGED <<consumed, cache, now, frame2FA>>

\* TwoFactorAuthAdmin change form: is_enabled is the editable field
AdminChange ==
    \E enabled \in BOOLEAN :
        /\ two_factor.exists
        /\ two_factor' = [two_factor EXCEPT !.is_enabled = enabled]
        /\ lastOp' = [NoOp EXCEPT !.op = "admin_change", !.ok = TRUE, !.before = two_factor]
        /\ UNCHANGED <<consumed, issued, cache, now, frame2FA>>

\* a request loads the row, calls verify_backup_code and is done
UseBackupCode ==
    \E code \in Codes :
        LET v == VerifyBackupCode(two_factor, code) IN
        /\ two_factor.exists
        /\ two_factor' = v.inst
        /\ consumed' = IF v.result THEN consumed \cup {code} ELSE consumed
        /\ lastOp' = [NoOp EXCEPT !.op = "verify_backup_code", !.ok = v.result,
                         !.code = code, !.before = two_factor,
                         !.usedBefore = code \in consumed]
        /\ UNCHANGED <<issued, cache, now, frame2FA>>

\* one TOTP step of time passes
TickStep ==
    /\ now + TOTP_INTERVAL <= MaxTime2FA
    /\ now' = now + TOTP_INTERVAL
    /\ cache' = CacheExpire(cache, now')
    /\ UNCHANGED <<tfaVars, auditVars, mwVars, callVars, frame2FA>>

Next2FA ==
    \/ Login
    \/ SecuritySettings
    \/ Enable2FA
    \/ Verify2FASetup
    \/ Disable2FA
    \/ AdminChange
    \/ UseBackupCode
    \/ TickStep

Spec2FA == Init /\ [][Next2FA]_vars

\* the handlers of the two-factor profile alone
NextProfile ==
    \/ SecuritySettings
    \/ Enable2FA
    \/ Verify2FASetup
    \/ Disable2FA
    \/ AdminChange
    \/ UseBackupCode
    \/ TickStep

Spec2FAProfile == Init /\ [][NextProfile]_vars

----------------------------------------------------------------------------
(* Backup codes redeemed by concurrent requests                            *)

Occurrences(code, list) == Cardinality({i \in 1..Len(list) : list[i] = code})

frameConc == <<authVars, lastOp, consumed, issued, auditVars, mwVars, callVars>>

\* a request reads the row into its own instance (TwoFactorAuth.objects.get)
LoadTwoFactor(p) ==
    \E code \in Codes :
        LET valid(inst) == Occurrences(code, inst.backup_codes) = 1
            rivals == {q \in Procs \ {p} : /\ vreq[q].pc = "loaded"
                                            /\ vreq[q].code = code
                                            /\ valid(vreq[q].inst)
                                            /\ valid(two_factor)}
            \* the loaded requests that hold the same row and another of its codes
            partners == {q \in Procs \ {p} : /\ vreq[q].pc = "loaded"
                                              /\ vreq[q].inst = two_factor
                                              /\ vreq[q].code # code
                                              /\ InList(vreq[q].code, two_factor.backup_codes)
                                              /\ InList(code, two_factor.backup_codes)}
        IN /\ vreq[p].pc \in {"idle", "done"}
           /\ \A q \in Earlier(p) : vreq[q].pc = "loaded"
           /\ two_factor.exists
           /\ vreq' = [q \in Procs |->
                        IF q = p THEN [NoRequest EXCEPT !.pc = "loaded", !.inst = two_factor,
                                                        !.code = code, !.raced = (rivals # {}),
                                                        !.together = (partners # {})]
                        ELSE IF q \in rivals THEN [vreq[q] EXCEPT !.raced = TRUE]
                        ELSE IF q \in partners THEN [vreq[q] EXCEPT !.together = TRUE]
                        ELSE vreq[q]]
           /\ UNCHANGED <<two_factor, frameConc>>

\* verify_backup_code on the instance; save() writes the instance to the row
VerifyAndSave(p) ==
    LET v == VerifyBackupCode(vreq[p].inst, vreq[p].code) IN
    /\ vreq[p].pc = "loaded"
    /\ two_factor' = IF v.result THEN v.inst ELSE two_factor
    /\ vreq' = [vreq EXCEPT ![p] = [@ EXCEPT !.pc = "done", !.inst = v.inst,
                                             !.result = v.result]]
    /\ UNCHANGED frameConc

\* enable_2fa while requests are in flight: what they raced for is gone
Regenerate ==
    \E secret \in Secrets, codes \in CodeLists :
        /\ two_factor' = GenerateBackupCodes(
                            GenerateSecretKey(GetOrCreate(two_factor), secret), codes)
        /\ vreq' = [q \in Procs |-> [vreq[q] EXCEPT !.raced = FALSE, !.together = FALSE]]
        /\ UNCHANGED frameConc

NextConc ==
    \/ \E p \in Procs : LoadTwoFactor(p)
    \/ \E p \in Procs : VerifyAndSave(p)
    \/ Regenerate

Spec2FAConc == Init /\ [][NextConc]_vars

Spec == Init /\ [][Next]_vars

----------------------------------------------------------------------------
(* SecurityMiddleware (apps/accounts/middleware.py). Strings are sequences  *)
(* of characters.                                                          *)

UpperCase == <<"A", "B", "C", "D", "E", "F", "G", "H", "I", "J", "K", "L", "M",
               "N", "O", "P", "Q", "R", "S", "T", "U", "V", "W", "X", "Y", "Z">>
LowerCase == <<"a", "b", "c", "d", "e", "f", "g", "h", "i", "j", "k", "l", "m",
               "n", "o", "p", "q", "r", "s", "t", "u", "v", "w", "x", "y", "z">>

\* str.lower()
Lower(str) ==
    [i \in 1..Len(str) |->
        IF \E k \in 1..Len(UpperCase) : UpperCase[k] = str[i]
        THEN LowerCase[CHOOSE k \in 1..Len(UpperCase) : UpperCase[k] = str[i]]
        ELSE str[i]]

\* pattern in str
Contains(pattern, str) ==
    \E i \in 0..(Len(str) - Len(pattern)) : SubSeq(str, i + 1, i + Len(pattern)) = pattern

\* str.startswith(prefix)
StartsWith(str, prefix) ==
    Len(prefix) <= Len(str) /\ SubSeq(str, 1, Len(prefix)) = prefix

suspicious_patterns ==
    << <<"s", "q", "l", "m", "a", "p">>,
       <<"n", "i", "k", "t", "o">>,
       <<"n", "m", "a", "p">>,
       <<"m", "a", "s", "s", "c", "a", "n">>,
       <<"z", "a", "p">>,
       <<"b", "u", "r", "p">>,
       <<"w", "3", "a", "f">>,
       <<"a", "c", "u", "n", "e", "t", "i", "x">>,
       <<"n", "e", "s", "s", "u", "s">>,
       <<"o", "p", "e", "n", "v", "a", "s">> >>

sql_patterns ==
    << <<"u", "n", "i", "o", "n", " ", "s", "e", "l", "e", "c", "t">>,
       <<"d", "r", "o", "p", " ", "t", "a", "b", "l", "e">>,
       <<"d", "e", "l", "e", "t", "e", " ", "f", "r", "o", "m">>,
       <<"i", "n", "s", "e", "r", "t", " ", "i", "n", "t", "o">>,
       <<"u", "p", "d", "a", "t", "e", " ", "s", "e", "t">>,
       <<"e", "x", "e", "c", "(">>,
       <<"e", "x", "e", "c", "u", "t", "e", "(">>,
       <<"s", "c", "r", "i", "p", "t", ">">>,
       <<"j", "a", "v", "a", "s", "c", "r", "i", "p", "t", ":">>,
       <<"o", "n", "l", "o", "a", "d", "=">>,
       <<"o", "n", "e", "r", "r", "o", "r", "=">>,
       <<"o", "n", "c", "l", "i", "c", "k", "=">>,
       <<"o", "n", "m", "o", "u", "s", "e", "o", "v", "e", "r", "=">> >>

xss_patterns ==
    << <<"<", "s", "c", "r", "i", "p", "t">>,
       <<"j", "a", "v", "a", "s", "c", "r", "i", "p", "t", ":">>,
       <<"o", "n", "l", "o", "a", "d", "=">>,
       <<"o", "n", "e", "r", "r", "o", "r", "=">>,
       <<"o", "n", "c", "l", "i", "c", "k", "=">>,
       <<"o", "n", "m", "o", "u", "s", "e", "o", "v", "e", "r", "=">>,
       <<"o", "n", "f", "o", "c", "u", "s", "=">>,
       <<"o", "n", "b", "l", "u", "r", "=">>,
       <<"o", "n", "c", "h", "a", "n", "g", "e", "=">>,
       <<"o", "n", "s", "u", "b", "m", "i", "t", "=">>,
       <<"o", "n", "r", "e", "s", "e", "t", "=">>,
       <<"o", "n", "k", "e", "y", "d", "o", "w", "n", "=">>,
       <<"o", "n", "k", "e", "y", "u", "p", "=">>,
       <<"o", "n", "k", "e", "y", "p", "r", "e", "s", "s", "=">>,
       <<"o", "n", "m", "o", "u", "s", "e", "d", "o", "w", "n", "=">>,
       <<"o", "n", "m", "o", "u", "s", "e", "u", "p", "=">> >>

sensitive_paths ==
    << <<"/", "a", "c", "c", "o", "u", "n", "t", "s", "/", "l", "o", "g", "i", "n", "/">>,
       <<"/", "a", "c", "c", "o", "u", "n", "t", "s", "/", "s", "i", "g", "n", "u", "p", "/">>,
       <<"/", "a", "d", "m", "i", "n", "/">>,
       <<"/", "a", "p", "i", "/">> >>

\* what a client may send
UserAgents == {<<"M", "o", "z", "i", "l", "l", "a", "/", "5", ".", "0">>,
               <<"s", "q", "l", "m", "a", "p", "/", "1", ".", "7", " ", "N", "i", "k", "t", "o">>}
Values == {<<"a", "l", "i", "c", "e">>,
           <<"1", " ", "U", "N", "I", "O", "N", " ", "S", "E", "L", "E", "C", "T", " ", "p", "a", "s", "s", "w", "o", "r", "d", " ", "F", "R", "O", "M", " ", "u", "s", "e", "r", "s">>,
           <<"<", "S", "C", "R", "I", "P", "T", ">", "a", "l", "e", "r", "t", "(", "1", ")", "<", "/", "S", "C", "R", "I", "P", "T", ">">>}
Paths == {<<"/", "a", "c", "c", "o", "u", "n", "t", "s", "/", "l", "o", "g", "i", "n", "/">>, <<"/", "s", "t", "u", "d", "e", "n", "t", "s", "/">>}
Methods == {"GET", "POST"}

\* request.GET and request.POST: the values of the parameters, none or one
Params == {<<>>} \cup {<<v>> : v \in Values}

\* request.user: "" is the anonymous user
Users == {"", "admin"}

MaxRequests == 3

\* the requests a client may send
HttpRequests ==
    {r \in [path : Paths, method : Methods, user_agent : UserAgents,
            GET : Params, POST : Params, user : Users, ip : IPs] :
        r.method = "GET" => r.POST = <<>>}

\* some value of the parameters holds some pattern of the list, case ignored
DetectIn(patterns, params) ==
    \E i \in 1..Len(params), k \in 1..Len(patterns) :
        Contains(patterns[k], Lower(params[i]))

\* _detect_sql_injection
DetectSqlInjection(request) ==
    \/ DetectIn(sql_patterns, request.GET)
    \/ request.method = "POST" /\ DetectIn(sql_patterns, request.POST)

\* _detect_xss_attempt
DetectXssAttempt(request) ==
    \/ DetectIn(xss_patterns, request.GET)
    \/ request.method = "POST" /\ DetectIn(xss_patterns, request.POST)

\* the scanner patterns the user agent holds, by position in the list
ScannerMatches(user_agent) ==
    {k \in 1..Len(suspicious_patterns) : Contains(suspicious_patterns[k], Lower(user_agent))}

\* _log_suspicious_activity: the SecurityEvent row it creates (user None is "")
LogSuspiciousActivity(request, description) ==
    [event_type |-> "SUSPICIOUS_ACTIVITY", user |-> request.user,
     ip_address |-> request.ip, description |-> description]

\* _check_suspicious_activity: the rows it creates, in order
CheckSuspiciousActivity(request) ==
    LET found == ScannerMatches(request.user_agent)
        first == CHOOSE k \in found : \A j \in found : k <= j
    IN (IF found # {}
        THEN <<LogSuspiciousActivity(request,
                   <<"Suspicious user agent detected", suspicious_patterns[first]>>)>>
        ELSE <<>>)
       \o (IF DetectSqlInjection(request)
           THEN <<LogSuspiciousActivity(request,
                      <<"Potential SQL injection attempt detected">>)>>
           ELSE <<>>)
       \o (IF DetectXssAttempt(request)
           THEN <<LogSuspiciousActivity(request, <<"Potential XSS attempt detected">>)>>
           ELSE <<>>)

\* each request a client may send, with the rows the scan creates for it
Scanned == {[request |-> r, created |-> CheckSuspiciousActivity(r)] : r \in HttpRequests}

\* _is_sensitive_endpoint
IsSensitiveEndpoint(request) ==
    \E k \in 1..Len(sensitive_paths) : StartsWith(request.path, sensitive_paths[k])

\* _is_rate_limited
IsRateLimited(c, t, client_ip) == CacheHas(c, t, <<"rate_limit", client_ip>>)

\* process_request refusing whatever the scan flagged
RateLimitGateBlocking(c, t, request) ==
    IF \/ CheckSuspiciousActivity(request) # <<>>
       \/ IsSensitiveEndpoint(request) /\ IsRateLimited(c, t, request.ip)
    THEN "refused" ELSE "none"

\* process_request after the scan: what it returns ("none" lets the request through)
RateLimitGate(c, t, request) ==
    IF IsSensitiveEndpoint(request) /\ IsRateLimited(c, t, request.ip)
    THEN "refused" ELSE "none"

\* SecurityEvent.objects.create, once for each row
Created(table, rows) ==
    [e \in EventTypeColumn |->
        table[e] + Cardinality({i \in 1..Len(rows) : rows[i].event_type = e})]

\* SecurityMiddleware.process_request
ProcessRequest ==
    \E scanned \in Scanned :
        LET request == scanned.request
            created == scanned.created
        IN
        /\ lastReq.n < MaxRequests
        /\ security_events' = Created(security_events, created)
        /\ lastReq' = [n |-> lastReq.n + 1, request |-> request,
                       response |-> RateLimitGate(cache, now, request),
                       created |-> created]
        /\ sensitive_seen' = IF IsSensitiveEndpoint(request)
                             THEN [sensitive_seen EXCEPT ![request.ip] = @ + 1]
                             ELSE sensitive_seen
        /\ UNCHANGED <<authVars, tfaVars, callVars, login_attempt_rows>>

NextMW ==
    \/ ProcessRequest
    \/ Login

SpecMW == Init /\ [][NextMW]_vars

----------------------------------------------------------------------------
(* What a login form shows                                                 *)

\* why a login was refused
Cause(c, t, username) ==
    IF username \notin Registered THEN "unknown_identity"
    ELSE IF IsAccountLocked(c, t, username) THEN "locked"
    ELSE "bad_credentials"

\* what the view shows when it logs nobody in: AuthenticationForm's
\* invalid_login error, or security_admin_login's messages.error
RefusalMessage(view) ==
    IF view = "security_admin_login"
    THEN "Invalid credentials or insufficient permissions for security admin access."
    ELSE "invalid_login"

\* a view that tells the user the account is locked
LoginResponseNamingLock(view, c, t, username, password) ==
    LET a == Authenticate(c, t, username, password)
        granted == /\ a.user # ""
                   /\ view = "security_admin_login" => IsSecurityAdmin(a.user)
    IN [cache |-> a.cache, ok |-> granted,
        response |-> IF granted THEN "redirect"
                     ELSE IF IsAccountLocked(c, t, username) THEN "Account locked."
                     ELSE RefusalMessage(view)]

\* CustomLoginView / security_admin_login, POST: the cache afterwards and
\* what the user sees
LoginResponse(view, c, t, username, password) ==
    LET a == Authenticate(c, t, username, password)
        granted == /\ a.user # ""
                   /\ view = "security_admin_login" => IsSecurityAdmin(a.user)
    IN [cache |-> a.cache, ok |-> granted,
        response |-> IF granted THEN "redirect" ELSE RefusalMessage(view)]

\* a login form is submitted
SubmitLogin ==
    \E view \in LoginViews, u \in LoginNames, pw \in Passwords :
        LET r == LoginResponse(view, cache, now, u, pw) IN
        /\ cache' = r.cache
        /\ refusals' = IF r.ok THEN refusals
                       ELSE refusals \cup {[view |-> view, cause |-> Cause(cache, now, u),
                                            response |-> r.response]}
        /\ UNCHANGED <<now, proc, calls, streak, expected, void, lastLockSet,
                       lastCall, oldest, lastIp, tfaVars, auditVars, mwVars>>

NextResponse == SubmitLogin

SpecResponse == Init /\ [][NextResponse]_vars

----------------------------------------------------------------------------
(* IPRateLimitedBackend, one call at a time                                *)

MaxTimeIP == 600

\* _is_ip_rate_limited
IsIpRateLimited(c, t, ip) == CacheHas(c, t, <<"ip_rate_limit", ip>>)

\* _rate_limit_ip
RateLimitIp(c, t, ip) == CacheSet(c, t, <<"ip_rate_limit", ip>>, 1, ACCOUNT_LOCKOUT_DURATION)

\* _record_ip_failed_attempt
RecordIpFailedAttempt(c, t, ip) ==
    LET new_attempts == CacheGetDefault(c, t, <<"ip_attempts", ip>>, 0) + 1
        c1 == CacheSet(c, t, <<"ip_attempts", ip>>, new_attempts, LOGIN_ATTEMPTS_TIMEOUT)
    IN IF new_attempts >= LOGIN_ATTEMPTS_LIMIT THEN RateLimitIp(c1, t, ip) ELSE c1

\* IPRateLimitedBackend.authenticate run to its end: the cache it leaves and
\* the user it returns ("" for None)
IPRateLimitedAuthenticate(c, t, client_ip, username, password) ==
    IF IsIpRateLimited(c, t, client_ip) THEN [cache |-> c, user |-> ""]
    ELSE LET inner == RateLimitedAuthenticate(c, t, username, password) IN
         IF inner.user # "" THEN inner
         ELSE [cache |-> RecordIpFailedAttempt(inner.cache, t, client_ip), user |-> ""]

\* when the first failure a counter still counts was made
Oldest(old, before, after, t) ==
    [k \in AttemptKeys |->
        IF ~CacheHas(after, t, k) THEN -1
        ELSE IF CacheHas(before, t, k) /\ old[k] >= 0 THEN old[k]
        ELSE t]

\* a view calls IPRateLimitedBackend().authenticate(request, username, password)
IPAuthenticate ==
    \E u \in Usernames, pw \in Passwords, ip \in ClientIPs :
        LET a == IPRateLimitedAuthenticate(cache, now, ip, u, pw)
            since == Oldest(oldest, cache, a.cache, now)
        IN /\ cache' = a.cache
           /\ oldest' = since
           /\ lastCall' = [n |-> 1, username |-> u, client_ip |-> ip, password |-> pw,
                           user |-> a.user, at |-> now, before |-> cache, after |-> a.cache,
                           spans |-> {now - since[k] : k \in {j \in AttemptKeys :
                                          /\ ~CacheHas(cache, now, LockOf(j))
                                          /\ CacheHas(a.cache, now, LockOf(j))}}]
           /\ UNCHANGED <<now, proc, calls, streak, expected, void, lastLockSet,
                          refusals, lastIp, tfaVars, auditVars, mwVars>>

\* half an attempt window passes
Wait ==
    /\ now + (LOGIN_ATTEMPTS_TIMEOUT \div 2) <= MaxTimeIP
    /\ now' = now + (LOGIN_ATTEMPTS_TIMEOUT \div 2)
    /\ cache' = CacheExpire(cache, now')
    /\ oldest' = [k \in AttemptKeys |-> IF CacheHas(cache, now', k) THEN oldest[k] ELSE -1]
    /\ UNCHANGED <<proc, calls, streak, expected, void, lastLockSet,
                   refusals, lastCall, lastIp, tfaVars, auditVars, mwVars>>

NextIP ==
    \/ IPAuthenticate
    \/ Wait

SpecIP == Init /\ [][NextIP]_vars

----------------------------------------------------------------------------
(* The audit tables: ComprehensiveLoggingMiddleware and the admin site     *)

MaxRows == 2

\* request.user of a logged request: "" is the anonymous user
LoggedUsers == Users \cup {"teacher"}
Superusers == {"admin"}

LoggedMethods == {"GET", "POST", "PUT", "DELETE", "PATCH"}
StatusCodes == {200, 403, 404, 500}

\* log_user_activity: the rows it creates
LogUserActivity(method, user) ==
    IF method \in {"POST", "PUT", "DELETE", "PATCH"}
    THEN <<[user |-> user,
            event_type |-> IF user \in Superusers THEN "ADMIN_ACTION" ELSE "USER_ACTION"]>>
    ELSE <<>>

\* log_security_event: the rows it creates
LogSecurityEvent(status_code, user) ==
    IF status_code \in {403, 404} THEN <<[user |-> user, event_type |-> "SUSPICIOUS_ACTIVITY"]>>
    ELSE IF status_code = 500 THEN <<[user |-> user, event_type |-> "ADMIN_ACTION"]>>
    ELSE <<>>

\* ComprehensiveLoggingMiddleware.__call__, after get_response
LoggingMiddlewareCall ==
    \E method \in LoggedMethods, user \in LoggedUsers, status_code \in StatusCodes :
        LET rows == (IF user # "" THEN LogUserActivity(method, user) ELSE <<>>)
                    \o (IF status_code \in {403, 404, 500}
                        THEN LogSecurityEvent(status_code, user) ELSE <<>>)
            table == Created(security_events, rows)
        IN /\ \A e \in EventTypeColumn : table[e] <= MaxRows
           /\ security_events' = table
           /\ UNCHANGED <<authVars, tfaVars, mwVars, callVars, login_attempt_rows>>

\* SecurityEventAdmin, delete view: a row is removed
AdminDeleteSecurityEvent ==
    \E e \in EventTypeColumn :
        /\ security_events[e] > 0
        /\ security_events' = [security_events EXCEPT ![e] = @ - 1]
        /\ UNCHANGED <<authVars, tfaVars, mwVars, callVars, login_attempt_rows>>

\* SecurityEventAdmin, change view: event_type is an editable field and the
\* form accepts the choices of the column
AdminChangeSecurityEvent ==
    \E e \in EventTypeColumn, new \in EVENT_TYPES :
        /\ security_events[e] > 0
        /\ new # e
        /\ security_events[new] < MaxRows
        /\ security_events' = [security_events EXCEPT ![e] = @ - 1, ![new] = @ + 1]
        /\ UNCHANGED <<authVars, tfaVars, mwVars, callVars, login_attempt_rows>>

\* LoginAttemptAdmin, add view
AdminAddLoginAttempt ==
    \E success \in BOOLEAN :
        /\ login_attempt_rows[success] < MaxRows
        /\ login_attempt_rows' = [login_attempt_rows EXCEPT ![success] = @ + 1]
        /\ UNCHANGED <<authVars, tfaVars, mwVars, callVars, security_events>>

\* LoginAttemptAdmin, change view: success is an editable field
AdminChangeLoginAttempt ==
    \E success \in BOOLEAN :
        /\ login_attempt_rows[success] > 0
        /\ login_attempt_rows[~success] < MaxRows
        /\ login_attempt_rows' = [login_attempt_rows EXCEPT ![success] = @ - 1,
                                                            ![~success] = @ + 1]
        /\ UNCHANGED <<authVars, tfaVars, mwVars, callVars, security_events>>

\* LoginAttemptAdmin, delete view
AdminDeleteLoginAttempt ==
    \E success \in BOOLEAN :
        /\ login_attempt_rows[success] > 0
        /\ login_attempt_rows' = [login_attempt_rows EXCEPT ![success] = @ - 1]
        /\ UNCHANGED <<authVars, tfaVars, mwVars, callVars, security_events>>

NextAudit ==
    \/ LoggingMiddlewareCall
    \/ AdminDeleteSecurityEvent
    \/ AdminChangeSecurityEvent
    \/ AdminAddLoginAttempt
    \/ AdminChangeLoginAttempt
    \/ AdminDeleteLoginAttempt

SpecAudit == Init /\ [][NextAudit]_vars

----------------------------------------------------------------------------
(* The client address, as three components derive it                      *)

MaxHeaderLen == 3

\* the characters of a header: digits of an address, the blank, the comma
HeaderChars == {"1", "2", " ", ","}

Strings(n) == UNION {[1..k -> HeaderChars] : k \in 0..n}

\* request.META: an X-Forwarded-For header that is missing reads as None,
\* which the code treats like the empty string
Metas == [HTTP_X_FORWARDED_FOR : Strings(MaxHeaderLen), REMOTE_ADDR : {<<"1">>, <<"2">>}]

\* s.split(',')[0]
SplitFirst(s) ==
    LET commas == {i \in 1..Len(s) : s[i] = ","} IN
    IF commas = {} THEN s
    ELSE SubSeq(s, 1, (CHOOSE i \in commas : \A j \in commas : i <= j) - 1)

\* s.strip()
Strip(s) ==
    LET solid == {i \in 1..Len(s) : s[i] # " "} IN
    IF solid = {} THEN <<>>
    ELSE SubSeq(s, CHOOSE i \in solid : \A j \in solid : i <= j,
                   CHOOSE i \in solid : \A j \in solid : i >= j)

\* SecurityMiddleware._get_client_ip
MiddlewareGetClientIp(meta) ==
    IF meta.HTTP_X_FORWARDED_FOR # <<>>
    THEN Strip(SplitFirst(meta.HTTP_X_FORWARDED_FOR))
    ELSE meta.REMOTE_ADDR

\* IPRateLimitedBackend._get_client_ip
BackendGetClientIp(meta) ==
    IF meta.HTTP_X_FORWARDED_FOR # <<>>
    THEN SplitFirst(meta.HTTP_X_FORWARDED_FOR)
    ELSE meta.REMOTE_ADDR

\* ComprehensiveLoggingMiddleware.get_client_ip
LoggingGetClientIp(meta) ==
    IF meta.HTTP_X_FORWARDED_FOR # <<>>
    THEN SplitFirst(meta.HTTP_X_FORWARDED_FOR)
    ELSE meta.REMOTE_ADDR

\* one request passes the three components
DeriveClientIp ==
    \E meta \in Metas :
        /\ lastIp' = [n |-> 1, META |-> meta,
                      middleware |-> MiddlewareGetClientIp(meta),
                      backend |-> BackendGetClientIp(meta),
                      logging |-> LoggingGetClientIp(meta)]
        /\ UNCHANGED <<authVars, tfaVars, auditVars, mwVars, refusals, lastCall, oldest>>

NextClientIp == DeriveClientIp

SpecClientIp == Init /\ [][NextClientIp]_vars

----------------------------------------------------------------------------
(* Properties of the configured backends                                   *)

Done(p) == proc[p].pc = "done"
Granted(p) == Done(p) /\ proc[p].user # ""

\* C1: a call whose lock check comes right after exactly LOGIN_ATTEMPTS_LIMIT
\* failed calls in a row for its username (all within the attempt window) is
\* not granted by the configured backends, even with the correct password.
C1_LockedAfterThreshold ==
    \A p \in Procs : (Done(p) /\ proc[p].afterStreak) => proc[p].user = ""

\* C2: no call that found the username (or the address) locked goes on to
\* compare the password, in any backend.
C2_NoCompareWhenLocked ==
    \A p \in Procs : ~(proc[p].sawLocked /\ proc[p].compared)

\* C3: when a call that no other request overlapped returns a user, the
\* attempt counter and the lockout record of its username and of its address
\* are absent.
C3_SuccessLeavesClean ==
    \A p \in Procs : (Granted(p) /\ ~proc[p].overlapped) => proc[p].leftClean

\* C4: with no reset or expiry between a get and its set, and no increment
\* in progress, login_attempts holds the number of increments completed
\* since the key was last absent: no update is lost.
C4_NoLostUpdate ==
    \A u \in Usernames :
        (~void[u] /\ ~MidIncrement(proc, u)) => ReadAttempts(cache, now, u) = expected[u]

\* C9: a call with the correct password whose lock check is made once the
\* lockout written last has run ACCOUNT_LOCKOUT_DURATION finds the account
\* unlocked and is granted by the rate-limited backend; calls refused while
\* the lockout lasted do not change that.
C9_GrantedAfterLockout ==
    \A p \in Procs :
        (Done(p) /\ proc[p].afterExpiry /\ CheckPassword(proc[p].username, proc[p].password))
            => /\ ~proc[p].sawLocked
               /\ proc[p].user = proc[p].username
               /\ proc[p].byBackend = "RateLimitedModelBackend"

\* a call was refused during the lockout, and a later call with the correct
\* password, made after the lockout ran out, was granted
C9_Witness ==
    \E p, q \in Procs :
        /\ p # q
        /\ Done(q) /\ proc[q].sawLocked /\ ~proc[q].afterExpiry
        /\ Granted(p) /\ proc[p].afterExpiry

----------------------------------------------------------------------------
(* Properties of the two-factor profile                                    *)

\* C5: two requests that submit the same valid backup code concurrently end
\* with exactly one of them accepted.
C5_ExactlyOneRedeems ==
    \A p, q \in Procs :
        (p # q /\ vreq[p].pc = "done" /\ vreq[q].pc = "done"
             /\ vreq[p].raced /\ vreq[q].raced /\ vreq[p].code = vreq[q].code)
            => (vreq[p].result # vreq[q].result)

\* C6: verify_2fa_setup with a token that is valid for the stored secret
\* leaves the profile enabled.
C6_ValidTokenEnables ==
    (lastOp.op = "verify_2fa_setup" /\ lastOp.tokenValid) => two_factor.is_enabled

\* C7: is_enabled goes from false to true only in a verify_2fa_setup call
\* whose token is valid for the stored secret.
C7_EnabledOnlyBySetup ==
    [][(~two_factor.is_enabled /\ two_factor'.is_enabled)
          => (lastOp'.op = "verify_2fa_setup" /\ lastOp'.tokenValid)]_vars

\* C8: a login granted to a user whose profile is enabled has verified a
\* TOTP token or a backup code in that request.
C8_EnabledNeedsSecondFactor ==
    (lastOp.op \in LoginViews /\ lastOp.ok /\ lastOp.before.is_enabled)
        => (lastOp.calls \cap {"verify_totp", "verify_backup_code"} # {})

\* C10: one request at a time, a backup code accepted once is refused until
\* the codes are generated again; an accepted code shortens the stored list
\* by one, a refused code leaves the row as it was.
C10_SequentialSingleUse ==
    lastOp.op = "verify_backup_code" =>
        /\ lastOp.usedBefore => ~lastOp.ok
        /\ lastOp.ok => Len(two_factor.backup_codes) = Len(lastOp.before.backup_codes) - 1
        /\ ~lastOp.ok => two_factor = lastOp.before

\* the stored backup codes are pairwise distinct
Distinct(list) == \A i, j \in 1..Len(list) : list[i] = list[j] => i = j

\* C11: enable_2fa's generate_backup_codes leaves exactly BackupCodeCount
\* stored codes, pairwise distinct, the very list it returns, and a code of
\* the previous list is stored afterwards only if it was generated again.
C11_FreshDistinctCodes ==
    lastOp.op = "enable_2fa" =>
        /\ Len(two_factor.backup_codes) = BackupCodeCount
        /\ Distinct(two_factor.backup_codes)
        /\ two_factor.backup_codes = lastOp.returned
        /\ \A c \in Range(lastOp.before.backup_codes) :
               InList(c, two_factor.backup_codes) => InList(c, lastOp.returned)

\* disable_2fa leaves the flag down, the secret empty and no backup code
DisabledIsCleared ==
    lastOp.op = "disable_2fa" =>
        /\ ~two_factor.is_enabled
        /\ two_factor.secret_key = ""
        /\ two_factor.backup_codes = <<>>

\* enable_2fa has run since the last disable_2fa
ReEnabled == issued.disabled /\ issued.fresh # {}

\* C12 as claimed: after disable_2fa and then enable_2fa, verify_backup_code
\* refuses every code generated before the disable; after disable_2fa alone
\* the flag is false, the secret empty and the code list empty.
C12_OldCodesFail ==
    /\ DisabledIsCleared
    /\ (lastOp.op = "verify_backup_code" /\ ReEnabled /\ lastOp.code \in issued.old)
           => ~lastOp.ok

\* C12 amended: after disable_2fa and then enable_2fa, verify_backup_code
\* refuses every code generated before the disable that enable_2fa has not
\* drawn again; after disable_2fa alone the flag is false, the secret empty
\* and the code list empty.
C12_OldCodesFailUnlessDrawnAgain ==
    /\ DisabledIsCleared
    /\ (lastOp.op = "verify_backup_code" /\ ReEnabled
            /\ lastOp.code \in issued.old \ issued.fresh)
           => ~lastOp.ok

\* a code generated before the disable and not drawn again was tried after
\* the re-enable, while new codes were stored, and refused
C12_Witness ==
    /\ lastOp.op = "verify_backup_code" /\ ReEnabled
    /\ lastOp.code \in issued.old \ issued.fresh
    /\ lastOp.before.backup_codes # <<>>
    /\ ~lastOp.ok

\* C13: verify_totp returns false for every token while is_enabled is false
\* or secret_key is empty.
C13_DisabledRejectsTotp ==
    (lastOp.op = "verify_2fa_setup" /\ lastOp.before.exists
         /\ (~lastOp.before.is_enabled \/ lastOp.before.secret_key = ""))
        => ~lastOp.ok

\* the token of the current step for the stored secret was refused because
\* the profile is not enabled
C13_Witness ==
    /\ lastOp.op = "verify_2fa_setup" /\ lastOp.before.exists
    /\ ~lastOp.before.is_enabled /\ lastOp.before.secret_key # ""
    /\ lastOp.token = OneTimeCode(lastOp.before.secret_key, TimeCode(lastOp.at))
    /\ ~lastOp.ok

\* how many steps the token's step lies from the step of the call
StepsAway(op) ==
    IF op.token[2] >= TimeCode(op.at) THEN op.token[2] - TimeCode(op.at)
    ELSE TimeCode(op.at) - op.token[2]

\* C14: on an enabled profile with a secret, verify_totp accepts a token
\* exactly when it is the code of that secret for the previous, the current
\* or the next 30-second step; a token two or more steps away is rejected.
C14_WindowOfOneStep ==
    (lastOp.op = "verify_2fa_setup" /\ lastOp.before.is_enabled
         /\ lastOp.before.secret_key # "")
        => (lastOp.ok <=> /\ lastOp.token[1] = lastOp.before.secret_key
                          /\ StepsAway(lastOp) <= 1)

\* on an enabled profile the code of the stored secret for the step two
\* steps back was rejected
C14_Witness ==
    /\ lastOp.op = "verify_2fa_setup" /\ lastOp.before.is_enabled
    /\ lastOp.token[1] = lastOp.before.secret_key
    /\ lastOp.token[2] = TimeCode(lastOp.at) - 2
    /\ ~lastOp.ok

----------------------------------------------------------------------------
(* Properties of the security middleware                                   *)

RateCap == 1

\* the user agent, a query parameter or a form field of the request holds a
\* pattern of one of the three families
Matches(request) ==
    \/ ScannerMatches(request.user_agent) # {}
    \/ DetectSqlInjection(request)
    \/ DetectXssAttempt(request)

\* C15: a request whose user agent, query parameters or form fields match a
\* pattern of any family makes the detector create exactly one
\* SUSPICIOUS_ACTIVITY SecurityEvent; a request that matches nothing makes
\* it create none.
C15_OneEventPerRequest ==
    lastReq.n > 0 =>
        /\ \A i \in 1..Len(lastReq.created) :
               lastReq.created[i].event_type = "SUSPICIOUS_ACTIVITY"
        /\ Len(lastReq.created) = IF Matches(lastReq.request) THEN 1 ELSE 0

\* C16: process_request leaves the cache (attempt counters, lockout records,
\* rate-limit keys) as it found it, and refuses a request only when its
\* path is sensitive and its address was rate limited before the request;
\* what the scan matched plays no part.
C16_ScanIsAdvisory ==
    [][lastReq'.n # lastReq.n =>
          /\ cache' = cache
          /\ lastReq'.response = "refused" =>
                 /\ IsSensitiveEndpoint(lastReq'.request)
                 /\ IsRateLimited(cache, now, lastReq'.request.ip)]_vars

\* a request that the scan flagged went through to the login view while an
\* attempt counter was live
C16_Witness ==
    /\ lastReq.n > 0
    /\ lastReq.created # <<>>
    /\ IsSensitiveEndpoint(lastReq.request)
    /\ lastReq.response = "none"
    /\ \E u \in Usernames : CacheHas(cache, now, AttemptsKey(u))

\* C17: once more than RateCap requests to a sensitive endpoint have come
\* from an address (all at the same instant, so within any window), the next
\* one is refused; a request to any other path is never refused.
C17_SensitiveRequestsCapped ==
    lastReq.n > 0 =>
        IF IsSensitiveEndpoint(lastReq.request)
        THEN sensitive_seen[lastReq.request.ip] - 1 > RateCap
                 => lastReq.response = "refused"
        ELSE lastReq.response = "none"

----------------------------------------------------------------------------
(* Properties of the audit tables                                          *)

\* C18: a finished authentication call that compared the password has left
\* a LoginAttempt row whose success flag is its outcome and a SecurityEvent
\* row of kind LOGIN_SUCCESS (user returned) or LOGIN_FAILED (none returned).
C18_ComparedCallIsRecorded ==
    \A p \in Procs :
        (Done(p) /\ proc[p].compared) =>
            /\ login_attempt_rows[proc[p].user # ""] > 0
            /\ security_events[IF proc[p].user # "" THEN "LOGIN_SUCCESS"
                               ELSE "LOGIN_FAILED"] > 0

\* C19: once a failed attempt has written the lockout record of a username,
\* the SecurityEvent table holds an ACCOUNT_LOCKED row.
C19_LockIsRecorded ==
    \A u \in Usernames : lastLockSet[u] >= 0 => security_events["ACCOUNT_LOCKED"] > 0

\* C20: a finished authentication call that the rate-limited backend refused
\* because the username was locked has left a row in the audit tables.
C20_RefusalIsRecorded ==
    \A p \in Procs :
        (Done(p) /\ proc[p].sawLocked) =>
            \/ \E e \in EVENT_TYPES : security_events[e] > 0
            \/ \E success \in BOOLEAN : login_attempt_rows[success] > 0

----------------------------------------------------------------------------
(* Properties of the remaining contracts                                   *)

\* C21: an authentication call during which a cache read, write or delete
\* failed returns no user, whether or not the password was correct.
C21_StoreFailureDenies ==
    \A p \in Procs : (Done(p) /\ proc[p].raised) => proc[p].user = ""

\* a call with the correct password met a cache failure and returned no user
C21_Witness ==
    \E p \in Procs :
        /\ Done(p) /\ proc[p].raised
        /\ CheckPassword(proc[p].username, proc[p].password)
        /\ proc[p].user = ""

\* C22: all refused logins of a view show the same response, whether the
\* password was wrong, the account locked or the username unknown.
C22_UniformRefusal ==
    \A a, b \in refusals : a.view = b.view => a.response = b.response

\* one view has refused a wrong password, a locked account and an unknown
\* username
C22_Witness ==
    \E view \in LoginViews :
        \A cause \in {"bad_credentials", "locked", "unknown_identity"} :
            \E a \in refusals : a.view = view /\ a.cause = cause

\* the last call found the username or the address locked
RefusedAsLocked ==
    /\ lastCall.n > 0
    /\ \/ IsAccountLocked(lastCall.before, lastCall.at, lastCall.username)
       \/ IsIpRateLimited(lastCall.before, lastCall.at, lastCall.client_ip)

\* C23: a call refused because the username or the address was already
\* locked leaves every attempt counter and every lockout record as it was.
C23_LockedRefusalWritesNothing ==
    RefusedAsLocked => /\ lastCall.user = ""
                       /\ lastCall.after = lastCall.before

\* C24: a lockout record is written only when the failures the counter
\* counts all fell within one attempt window: at most
\* LOGIN_ATTEMPTS_TIMEOUT seconds lie between the first of them and the
\* call that locks.
C24_LockNeedsOneWindow ==
    \A span \in lastCall.spans : span <= LOGIN_ATTEMPTS_TIMEOUT

\* a call for this username with the right password is in flight
SuccessInFlight(username) ==
    \E p \in InFlight : /\ proc[p].username = username
                        /\ proc[p].password = Password[username]

\* C25: once LOGIN_ATTEMPTS_LIMIT + 1 calls for a username have failed in a
\* row within one attempt window, with no successful login among or beside
\* them, the username is locked, however the calls interleaved.
C25_LockedOneAttemptLate ==
    \A u \in Usernames :
        (streak[u] > LOGIN_ATTEMPTS_LIMIT /\ ~SuccessInFlight(u))
            => IsAccountLocked(cache, now, u)

\* C26: when two requests that hold the same row redeem two different codes
\* of it, both are accepted and neither code is in the stored list afterwards.
C26_BothCodesGone ==
    \A p, q \in Procs :
        (/\ p # q
         /\ vreq[p].pc = "done" /\ vreq[q].pc = "done"
         /\ vreq[p].together /\ vreq[q].together
         /\ vreq[p].result /\ vreq[q].result)
            => /\ ~InList(vreq[p].code, two_factor.backup_codes)
               /\ ~InList(vreq[q].code, two_factor.backup_codes)

\* C27: once the row holds a secret, an operation other than disable_2fa
\* leaves the stored secret as it was, and enable_2fa stores exactly the
\* backup codes it has just generated.
C27_SecretGeneratedOnce ==
    /\ (lastOp.op \notin {"", "disable_2fa"} /\ lastOp.before.secret_key # "")
           => two_factor.secret_key = lastOp.before.secret_key
    /\ lastOp.op = "enable_2fa" => two_factor.backup_codes = lastOp.returned

\* C28: every row of the SecurityEvent table has an event_type of
\* SecurityEvent.EVENT_TYPES.
C28_EventKindsClosed ==
    \A e \in EventTypeColumn : security_events[e] > 0 => e \in EVENT_TYPES

\* C29: the audit tables are append-only: no step removes a SecurityEvent
\* or LoginAttempt row or changes the fields of one.
C29_AppendOnly ==
    [][/\ \A e \in EventTypeColumn : security_events'[e] >= security_events[e]
       /\ \A success \in BOOLEAN : login_attempt_rows'[success] >= login_attempt_rows[success]]_vars

\* C30: the client address is the first entry of X-Forwarded-For when the
\* header is present and REMOTE_ADDR otherwise, and the security middleware,
\* the address-limited backend and the logging middleware derive the same
\* address from the same request.
C30_OneClientIdentity ==
    lastIp.n > 0 =>
        /\ lastIp.backend = IF lastIp.META.HTTP_X_FORWARDED_FOR # <<>>
                            THEN SplitFirst(lastIp.META.HTTP_X_FORWARDED_FOR)
                            ELSE lastIp.META.REMOTE_ADDR
        /\ lastIp.middleware = lastIp.backend
        /\ lastIp.logging = lastIp.backend

====
